---------------------------- MODULE Spec2Model ----------------------------
(***************************************************************************)
(* WingmanSupport.jsx: the Team Special ability state machine, its attack  *)
(* generator and the effect components it mounts.                          *)
(*                                                                         *)
(* React semantics carried by the model.  A function component's callbacks *)
(* (useFrame body, triggerTeamSpecial, executeAttack, handleEffectComplete)*)
(* close over the state values of the LAST RENDER.  A setState call only   *)
(* queues a value; the queue is applied by the next render (React 18       *)
(* batches every setState of one callback into one render).  The variables *)
(* named after the source's state (cooldown, isActive, phase, ...) hold    *)
(* the rendered values the closures read; `pending` holds the values the   *)
(* queued updates produce at the next render.  Refs (phaseStartTime) are   *)
(* written and read immediately.                                           *)
(*                                                                         *)
(* Time is in milliseconds.  A frame (Tick) is the only step that lets     *)
(* time pass; timers fire in due order between frames.                     *)
(***************************************************************************)
EXTENDS Integers, Sequences, FiniteSets, TLC

\* ------------------------------------------------------------------------
\* WINGMAN_CONFIG (src/WingmanSupport.jsx:8-39) and literals of the code
\* ------------------------------------------------------------------------
TEAM_SPECIAL_COOLDOWN == 45000
ATTACK_DURATION == 2000
ESCAPE_DURATION == 1500
APPROACH_DURATION == 1000
BEAM_LOCK_DURATION == 100
LIGHTNING_CHAIN_DURATION == 600
LIGHTNING_EXPLODE_DURATION == 500
MISSILE_FLIGHT_TIME == 500
MISSILE_IMPACT_DELAY == 300
GATLING_SHOTS == 5
GATLING_SPEED == 120
GATLING_HIT_DISTANCE == 2
CHAIN_EXPLOSION_STRIDE == 50
EXPLOSION_LIFETIME == 600
CLEANUP_INTERVAL == 100

WINGMAN_NAMES == <<"FALCO", "SLIPPY", "PEPPY", "KRYSTAL">>
Wingmen == 0..3

\* ------------------------------------------------------------------------
\* Bounds of the model
\* ------------------------------------------------------------------------
\* Largest number of targets the host supplies.
MaxTargets == 2
\* While an activation or an effect is in progress a scheduled render is
\* applied within this many ms of frame time: the frames that run before it
\* see the previous render's values.  While nothing is in progress the
\* frames of the model are long, and one frame at most runs before the
\* scheduled render.
MaxRenderLag == 500
\* Frame deltas (ms) while an activation or an effect is in progress.
FrameDeltas == {500}
\* The frame delta (ms) of the runs that follow the effect components.
FxDeltas == {250}
\* Frame deltas (ms) while the machine is idle and nothing is live: the
\* cooldown is counted down in long frames (R3F does not clamp delta).
LongDeltas == {15000, 30000}

Min(a, b) == IF a < b THEN a ELSE b
Max(a, b) == IF a > b THEN a ELSE b

\* Date.now() - phaseStartTime.current saturates here: every threshold the
\* code compares it with is below.
ElapsedCap == ATTACK_DURATION + 100

\* ------------------------------------------------------------------------
\* The host's data: targets {id, position}
\* ------------------------------------------------------------------------
TargetIds == 1..MaxTargets
\* Distance of target i from the attack pose (id 1 is the farthest).
EnemyPosition(i) == 42 - 6 * i
Enemy(i) == [id |-> i, position |-> EnemyPosition(i)]

RECURSIVE SeqsUpTo(_, _)
\* sequences of pairwise distinct elements of S, of length <= n
SeqsUpTo(S, n) ==
  IF n = 0 THEN {<<>>}
  ELSE LET shorter == SeqsUpTo(S, n - 1)
       IN  shorter \cup
           {Append(s, x) : s \in {t \in shorter : Len(t) = n - 1},
                           x \in S}

Range(s) == {s[k] : k \in 1..Len(s)}
Distinct(s) == Cardinality(Range(s)) = Len(s)
EnemyLists ==
  {s \in SeqsUpTo({Enemy(i) : i \in TargetIds}, MaxTargets) : Distinct(s)}


\* ------------------------------------------------------------------------
\* Attack generator (executeAttack's switch)
\* ------------------------------------------------------------------------
\* An effect descriptor.  id is the key string of the code as a tuple:
\* `gatling-${i}-${j}` is <<"gatling", i, j>>, `beam-${i}` <<"beam", i, 0>>,
\* 'lightning-chain' <<"lightning", 0, 0>>, `missile-${i}` <<"missile", i, 0>>
\* (i is the 0-based forEach index).
Descriptor(type, i, j, target, delay, positions) ==
  [type |-> type, id |-> <<type, i, j>>, targetPosition |-> target,
   delay |-> delay, positions |-> positions]

\* shipPos.distanceTo(position): the attack pose is the origin of the axis
DistanceTo(position) == position

RECURSIVE InsertByDistance(_, _)
\* insertion after every element that is not farther: a stable ascending sort
InsertByDistance(sorted, e) ==
  IF sorted = <<>> THEN <<e>>
  ELSE IF DistanceTo(e.position) < DistanceTo(Head(sorted).position)
       THEN <<e>> \o sorted
       ELSE <<Head(sorted)>> \o InsertByDistance(Tail(sorted), e)

\* the list left unsorted
SortByDistance_Unsorted(s) == s

RECURSIVE SortByDistance(_)
\* [...targetEnemies].sort((a, b) => distance(a) - distance(b))
SortByDistance(s) ==
  IF s = <<>> THEN <<>>
  ELSE InsertByDistance(SortByDistance(SubSeq(s, 1, Len(s) - 1)), s[Len(s)])

RECURSIVE Flatten(_)
Flatten(ss) == IF ss = <<>> THEN <<>> ELSE Head(ss) \o Flatten(Tail(ss))

\* one projectile per target instead of the burst
GatlingEffects_SingleShot(targets) ==
  [k \in 1..Len(targets) |->
    Descriptor("gatling", k - 1, 0, targets[k].position, (k - 1) * 30, <<>>)]

GatlingEffects(targets) ==
  Flatten([k \in 1..Len(targets) |->
    [s \in 1..GATLING_SHOTS |->
      Descriptor("gatling", k - 1, s - 1, targets[k].position,
                 (s - 1) * 50 + (k - 1) * 30, <<>>)]])

\* every beam fired at once
BeamEffects_Simultaneous(targets) ==
  [k \in 1..Len(targets) |->
    Descriptor("beam", k - 1, 0, targets[k].position, 0, <<>>)]

BeamEffects(targets) ==
  [k \in 1..Len(targets) |->
    Descriptor("beam", k - 1, 0, targets[k].position, (k - 1) * 50, <<>>)]

LightningEffects(targets) ==
  IF Len(targets) > 0
  THEN LET sortedEnemies == SortByDistance(targets)
           chainPositions ==
             <<0>> \o [k \in 1..Len(sortedEnemies) |-> sortedEnemies[k].position]
       IN  <<Descriptor("lightning", 0, 0, 0, 0, chainPositions)>>
  ELSE <<>>

MissileEffects(targets) ==
  [k \in 1..Len(targets) |->
    Descriptor("missile", k - 1, 0, targets[k].position, 0, <<>>)]

\* the `effects` array executeAttack hands to setAttackEffects
executeAttack(wingman, targets) ==
  CASE wingman = 0 -> GatlingEffects(targets)
    [] wingman = 1 -> BeamEffects(targets)
    [] wingman = 2 -> LightningEffects(targets)
    [] wingman = 3 -> MissileEffects(targets)
    [] OTHER -> <<>>


\* ------------------------------------------------------------------------
\* State
\* ------------------------------------------------------------------------
VARIABLES
  \* useState values as of the last render (what every closure reads)
  cooldown, isActive, phase, attackEffects, explosions, targetEnemies,
  \* the values the queued setState calls give at the next render
  pending,
  \* a render is scheduled; frame time passed since the oldest queued update
  dirty, staleMs,
  \* the wingman ship's position state, a vector <<x, y, z>>
  wingmanPosition,
  \* props of the last render
  enemies, selectedWingman,
  \* Date.now() - phaseStartTime.current, and ms since the last frame
  elapsed, sinceFrame,
  \* mounted effect components (by key) and the pending timers, in the
  \* order they were set
  children, timers,
  \* ms until the cleanup interval's next callback
  cleanupIn,
  \* WingmanSupportSystem's own state: the cooldown and the active flag it
  \* mirrors from the notifications
  host,
  \* observation: the last step and what it called; per-activation counts
  ev, cycle, completions

vars == <<cooldown, isActive, phase, attackEffects, explosions, targetEnemies,
          wingmanPosition, pending, dirty, staleMs, enemies, selectedWingman, elapsed,
          sinceFrame, children, timers, cleanupIn, host, ev, cycle,
          completions>>

stateVars == <<cooldown, isActive, phase, attackEffects, explosions,
               targetEnemies, wingmanPosition>>

\* ------------------------------------------------------------------------
\* The wingman ship's poses; vectors are <<x, y, z>> in whole units
\* ------------------------------------------------------------------------
SPAWN_OFFSET_BEHIND == 40
SPAWN_OFFSET_ABOVE == 15

\* new Vector3()
Vector3 == <<0, 0, 0>>
\* the playerPosition and playerForward props, at their default values
playerPosition == <<0, 0, 0>>
playerForward == <<0, 0, -1>>

\* playerPosition.clone().add(playerForward.clone().multiplyScalar(40)),
\* then y += 15
getSpawnPosition(pos, fwd) ==
  <<pos[1] + fwd[1] * SPAWN_OFFSET_BEHIND,
    pos[2] + fwd[2] * SPAWN_OFFSET_BEHIND + SPAWN_OFFSET_ABOVE,
    pos[3] + fwd[3] * SPAWN_OFFSET_BEHIND>>

\* playerPosition.clone(), x += 5, y += 2
getAttackPosition(pos) == <<pos[1] + 5, pos[2] + 2, pos[3]>>

\* attackPosition.current, assigned at the accepted trigger
attackPosition == getAttackPosition(playerPosition)

\* MathUtils.smoothstep(x, 0, 1) = x * x * (3 - 2 * x), x in thousandths
Smoothstep(x) == (x * x * (3000 - 2 * x)) \div 1000000

\* new Vector3().lerpVectors(a, b, alpha), alpha in thousandths
lerpVectors(a, b, alpha) ==
  <<a[1] + ((b[1] - a[1]) * alpha) \div 1000,
    a[2] + ((b[2] - a[2]) * alpha) \div 1000,
    a[3] + ((b[3] - a[3]) * alpha) \div 1000>>

\* the escape frame's pose: attackPosition with y += progress * 50 and
\* z += progress * 30, progress = min(el / ESCAPE_DURATION, 1)
EscapePosition(el) ==
  <<attackPosition[1],
    attackPosition[2] + (Min(el, ESCAPE_DURATION) * 50) \div ESCAPE_DURATION,
    attackPosition[3] + (Min(el, ESCAPE_DURATION) * 30) \div ESCAPE_DURATION>>

\* the argument of the frame's setWingmanPosition call, on the phase of the
\* callback's closure; the attack case sets no position
WingmanMoved(pos, el) ==
  CASE isActive /\ phase = "approach" ->
         lerpVectors(getSpawnPosition(playerPosition, playerForward),
                     attackPosition,
                     Smoothstep((Min(el, APPROACH_DURATION) * 1000)
                                  \div APPROACH_DURATION))
    [] isActive /\ phase = "escape" -> EscapePosition(el)
    [] OTHER -> pos

NoEvent(name) ==
  [op |-> name, delta |-> 0, returned |-> "none", onActivate |-> <<>>,
   onEnemiesDestroyed |-> <<>>, onCooldownUpdate |-> <<>>,
   executeAttack |-> 0, escapeExit |-> FALSE, completed |-> <<>>,
   fired |-> <<>>, swept |-> <<>>]

Ids(effects) == {effects[k].id : k \in 1..Len(effects)}
Filter(effects, id) == SelectSeq(effects, LAMBDA e : e.id # id)
Bump(n) == Min(n + 1, 2)

Init ==
  /\ cooldown = 0
  /\ isActive = FALSE
  /\ phase = "idle"
  /\ attackEffects = <<>>
  /\ explosions = <<>>
  /\ targetEnemies = <<>>
  /\ wingmanPosition = Vector3
  /\ pending = [cooldown |-> 0, isActive |-> FALSE, phase |-> "idle",
                attackEffects |-> <<>>, explosions |-> <<>>,
                targetEnemies |-> <<>>, effectsSet |-> FALSE,
                wingmanPosition |-> Vector3]
  /\ dirty = FALSE
  /\ staleMs = 0
  /\ enemies \in EnemyLists
  /\ selectedWingman \in Wingmen
  /\ elapsed = ElapsedCap
  /\ sinceFrame = 0
  /\ children = << >>
  /\ timers = <<>>
  /\ cleanupIn = CLEANUP_INTERVAL
  /\ host = [cooldown |-> 0, isActive |-> FALSE]
  /\ ev = NoEvent("init")
  /\ cycle = [executions |-> 0, destroyed |-> 0, snapshot |-> <<>>,
              sinceIdle |-> -1, variant |-> -1]
  /\ completions = << >>

\* ------------------------------------------------------------------------
\* triggerTeamSpecial (window.triggerWingmanSpecial)
\* ------------------------------------------------------------------------
\* the name looked up one entry too far
onActivateArgs_NextName(w) == <<w, WINGMAN_NAMES[((w + 1) % 4) + 1]>>

\* the arguments of the onActivate call: the index and
\* WINGMAN_CONFIG.WINGMAN_NAMES[selectedWingman]
onActivateArgs(w) == <<w, WINGMAN_NAMES[w + 1]>>

\* the guard with the isActive test dropped
TriggerRejected_IgnoresActive == cooldown > 0 \/ Len(enemies) = 0
\* the guard with the cooldown test dropped
TriggerRejected_IgnoresCooldown == isActive \/ Len(enemies) = 0

\* the early return of the callback, on the values of its closure
TriggerRejected == cooldown > 0 \/ isActive \/ Len(enemies) = 0

\* WingmanSupportSystem after the notifications of the event e:
\* handleActivate sets isActive, the onEnemiesDestroyed prop clears it,
\* handleCooldownUpdate stores the notified value
HostMirror(h, e) ==
  [isActive |-> IF e.onEnemiesDestroyed # <<>> THEN FALSE
                ELSE IF e.onActivate # <<>> THEN TRUE
                ELSE h.isActive,
   cooldown |-> IF e.onCooldownUpdate # <<>>
                THEN e.onCooldownUpdate[Len(e.onCooldownUpdate)][1]
                ELSE h.cooldown]

\* an accepted trigger that also starts the cooldown
Activated_StartsCooldown(p) ==
  [p EXCEPT !.isActive = TRUE,
            !.phase = "approach",
            !.cooldown = TEAM_SPECIAL_COOLDOWN,
            !.wingmanPosition = getSpawnPosition(playerPosition, playerForward),
            !.targetEnemies = enemies]

\* the state updates of an accepted trigger, on the queued state p
Activated(p) ==
  [p EXCEPT !.isActive = TRUE,
            !.phase = "approach",
            !.wingmanPosition = getSpawnPosition(playerPosition, playerForward),
            !.targetEnemies = enemies]

triggerTeamSpecial ==
  IF TriggerRejected
  THEN /\ ev' = [NoEvent("trigger") EXCEPT !.returned = "false"]
       /\ UNCHANGED <<stateVars, pending, dirty, staleMs, enemies,
                      selectedWingman, elapsed, sinceFrame, children, timers,
                      cleanupIn, host, cycle, completions>>
  ELSE /\ pending' = Activated(pending)
       /\ elapsed' = 0
       /\ dirty' = TRUE
       /\ ev' = [NoEvent("trigger") EXCEPT
                   !.returned = "true",
                   !.onActivate = <<onActivateArgs(selectedWingman)>>]
       /\ host' = HostMirror(host, ev')
       /\ cycle' = [cycle EXCEPT !.snapshot = enemies,
                                 !.variant = selectedWingman]
       /\ UNCHANGED <<stateVars, staleMs, enemies, selectedWingman,
                      sinceFrame, children, timers, cleanupIn, completions>>


\* ------------------------------------------------------------------------
\* Completion handlers of WingmanSupport
\* ------------------------------------------------------------------------
Find(effects, effectId) ==
  {k \in 1..Len(effects) : effects[k].id = effectId}

\* handleEffectComplete(effectId), run by a closure whose attackEffects is
\* closureEffects, on the queued state p
handleEffectComplete(p, closureEffects, effectId) ==
  LET found == Find(closureEffects, effectId)
      \* attackEffects.find(...): the first match
      effect == closureEffects[CHOOSE k \in found : \A m \in found : k <= m]
      removed == [p EXCEPT !.attackEffects = Filter(@, effectId),
                           !.effectsSet = TRUE]
  IN  \* effect && effect.targetPosition (a chain descriptor has none)
      IF found # {} /\ effect.type # "lightning"
      THEN [removed EXCEPT !.explosions =
              Append(@, [position |-> effect.targetPosition, age |-> 0])]
      ELSE removed

RECURSIVE CompleteAll(_, _, _)
\* onComplete(id) for each id of the sequence ids, in order
CompleteAll(p, closureEffects, ids) ==
  IF ids = <<>> THEN p
  ELSE CompleteAll(handleEffectComplete(p, closureEffects, Head(ids)),
                   closureEffects, Tail(ids))

\* the setTimeout calls of handleLightningComplete: one per target of the
\* closure's targetEnemies, the i-th after i * 50 ms
ChainExplosionTimers(closureTargets) ==
  [k \in 1..Len(closureTargets) |->
    [kind |-> "chainExplosion", id |-> <<"explosion", k - 1, 0>>,
     rem |-> (k - 1) * CHAIN_EXPLOSION_STRIDE, age |-> 0,
     closure |-> <<closureTargets[k].position>>]]

\* handleLightningComplete's state update
handleLightningComplete(p) ==
  [p EXCEPT !.attackEffects = <<>>, !.effectsSet = TRUE]

RECURSIVE CountUp(_, _)
\* completions with one more call recorded for each id of the sequence
CountUp(c, ids) ==
  IF ids = <<>> THEN c
  ELSE CountUp(IF Head(ids) \in DOMAIN c
               THEN [c EXCEPT ![Head(ids)] = Bump(@)] ELSE c, Tail(ids))

\* ------------------------------------------------------------------------
\* Effect components
\* ------------------------------------------------------------------------
\* a freshly mounted GatlingProjectile / BeamEffect / LightningChain / Missile
Mounted(desc) ==
  [type |-> desc.type, targetPosition |-> desc.targetPosition,
   delay |-> desc.delay, active |-> FALSE, activeQ |-> FALSE,
   done |-> FALSE, doneQ |-> FALSE, at |-> 0, age |-> 0]

\* a start timer that is due at once
StartTimer_NoDelay(desc, effects, targets, age) ==
  [kind |-> "start", id |-> desc.id, rem |-> 0, age |-> age,
   closure |-> CASE desc.type = "beam" -> effects
                 [] desc.type = "lightning" -> targets
                 [] OTHER -> <<>>]

\* the timer its mount effect sets; closure is what the callbacks that this
\* effect run creates will see: the attackEffects of handleEffectComplete
\* (beam), the targetEnemies of handleLightningComplete (lightning); age is
\* the time since the component was mounted
StartTimer(desc, effects, targets, age) ==
  [kind |-> "start", id |-> desc.id, rem |-> desc.delay, age |-> age,
   closure |-> CASE desc.type = "beam" -> effects
                 [] desc.type = "lightning" -> targets
                 [] OTHER -> <<>>]

\* speed * delta, delta in seconds: 120 units/s over d ms
GatlingStep(d) == (GATLING_SPEED * d) \div 1000

\* ref.current.position.distanceTo(targetPosition) < 2
GatlingHit(child) ==
  LET dist == IF child.targetPosition >= child.at
              THEN child.targetPosition - child.at
              ELSE child.at - child.targetPosition
  IN  dist < GATLING_HIT_DISTANCE

\* the time since its mount an instance or a timer is followed for: past the
\* last timer of the longest effect
AgeCap == LIGHTNING_CHAIN_DURATION + LIGHTNING_EXPLODE_DURATION + 100

\* a child after ms of clock time: a started missile's Date.now() - startTime
ChildAged(child, adv) ==
  IF child.type = "missile" /\ child.activeQ
  THEN [child EXCEPT !.at = Min(@ + adv, MISSILE_FLIGHT_TIME),
                     !.age = Min(@ + adv, AgeCap)]
  ELSE [child EXCEPT !.age = Min(@ + adv, AgeCap)]

\* a child's useFrame callback body: the position update
ChildFrame(child, d) ==
  IF child.type = "gatling" /\ child.active
  THEN [child EXCEPT !.at = Min(@ + GatlingStep(d),
                              child.targetPosition + GATLING_HIT_DISTANCE)]
  ELSE IF child.type = "missile" /\ child.active /\ ~child.done
            /\ child.at >= MISSILE_FLIGHT_TIME
       THEN [child EXCEPT !.doneQ = TRUE]
       ELSE child

\* progress >= 1 in a Missile's frame: setExploded(true) and the impact
\* timer; `exploded` is the rendered value
MissileImpact(child) ==
  /\ child.type = "missile" /\ child.active /\ ~child.done
  /\ child.at >= MISSILE_FLIGHT_TIME

\* explosions after adv ms; an age is followed up to one polling interval
\* past the lifetime
Aged(exps, adv) ==
  [k \in 1..Len(exps) |->
     [exps[k] EXCEPT !.age = Min(@ + adv,
                                 EXPLOSION_LIFETIME + CLEANUP_INTERVAL)]]

\* the sweeper's filter keeps e while Date.now() - parseInt(id) < 600 and
\* drops it only after that
Expired_AfterLifetime(e) == e.age > EXPLOSION_LIFETIME

\* the sweeper's filter keeps e while Date.now() - parseInt(id) < 600
Expired(e) == ~(e.age < EXPLOSION_LIFETIME)


\* ------------------------------------------------------------------------
\* The clock
\* ------------------------------------------------------------------------
\* nothing is in progress: no activation, no effect, no timer, no explosion
Quiet ==
  /\ ~isActive /\ ~pending.isActive
  /\ timers = <<>> /\ DOMAIN children = {}
  /\ pending.explosions = <<>> /\ explosions = <<>>

Deltas == IF Quiet THEN LongDeltas ELSE FrameDeltas \cup FxDeltas

\* a frame d ms after the previous one may still run on the previous render
StaleFrame(d) == IF Quiet THEN staleMs = 0 ELSE staleMs + d <= MaxRenderLag

\* the setInterval callback is due and has something to filter
CleanupDue == cleanupIn = 0 /\ pending.explosions # <<>>

\* time may pass by adv: no timer is due earlier
MayPass(adv) ==
  /\ \A k \in 1..Len(timers) : timers[k].rem >= adv
  /\ pending.explosions # <<>> => cleanupIn >= adv

\* the interval after adv ms; with nothing to filter its callbacks change
\* nothing and it wraps around
CleanupAfter(adv) ==
  IF pending.explosions # <<>> THEN cleanupIn - adv
  ELSE CLEANUP_INTERVAL - ((CLEANUP_INTERVAL - cleanupIn + adv) % CLEANUP_INTERVAL)

TimersAfter(adv) ==
  [k \in 1..Len(timers) |->
     [timers[k] EXCEPT !.rem = @ - adv, !.age = Min(@ + adv, AgeCap)]]

RECURSIVE SeqOf(_, _)
\* the elements of seq order whose id is in the set ids, as a sequence of f(.)
SeqOf(order, ids) ==
  IF order = <<>> THEN <<>>
  ELSE (IF Head(order).id \in ids THEN <<Head(order)>> ELSE <<>>)
       \o SeqOf(Tail(order), ids)

\* ------------------------------------------------------------------------
\* useFrame: one frame, delta = d ms after the previous frame
\* ------------------------------------------------------------------------
\* the cooldown block entered whatever the cooldown
CooldownRunning_Always(c) == TRUE

\* the test of the cooldown block: if (cooldown > 0)
CooldownRunning(c) == c > 0

\* the decrement without its clamp
NewCooldown_Unclamped(c, d) == c - d

\* Math.max(0, cooldown - delta * 1000)
NewCooldown(c, d) == Max(0, c - d)

\* the three exit tests of the phase switch, el = Date.now() - phaseStartTime
ApproachDone(el) == isActive /\ phase = "approach" /\ el >= APPROACH_DURATION
\* an attack exit that waits for the effects to be gone
AttackDone_WaitsForEffects(el) ==
  isActive /\ phase = "attack" /\ el > ATTACK_DURATION /\ attackEffects = <<>>
AttackDone(el) == isActive /\ phase = "attack" /\ el > ATTACK_DURATION
\* an escape that never ends
EscapeDone_Never(el) == FALSE
EscapeDone(el) == isActive /\ phase = "escape" /\ el >= ESCAPE_DURATION

\* the approach exit entering the escape phase
NextPhase_SkipsAttack(ph) ==
  CASE ph = "approach" -> "escape"
    [] ph = "attack" -> "escape"
    [] ph = "escape" -> "idle"
    [] OTHER -> ph

\* the argument of setPhase in the case of the switch for phase ph
NextPhase(ph) ==
  CASE ph = "approach" -> "attack"
    [] ph = "attack" -> "escape"
    [] ph = "escape" -> "idle"
    [] OTHER -> ph

\* the attack exit without its phaseStartTime assignment
PhaseStart_KeptAtAttackExit(el, approachDone, attackDone) ==
  IF approachDone THEN 0 ELSE el
\* the approach exit without its phaseStartTime assignment
PhaseStart_KeptAtApproachExit(el, approachDone, attackDone) ==
  IF attackDone THEN 0 ELSE el

\* Date.now() - phaseStartTime.current after the frame: the approach and the
\* attack exits assign phaseStartTime.current = Date.now()
PhaseStart(el, approachDone, attackDone) ==
  IF approachDone \/ attackDone THEN 0 ELSE el

\* the ids of all targets but the last
DestroyedIds_DropsLast(targets) ==
  [k \in 1..(Len(targets) - 1) |-> targets[k].id]

\* targetEnemies.map(e => e.id)
DestroyedIds(targets) == [k \in 1..Len(targets) |-> targets[k].id]

\* the host's current list read in place of the snapshot
TargetsRead_LiveList == enemies

\* the list executeAttack iterates and the attack exit maps to ids: the
\* targetEnemies state of the callback's closure
TargetsRead == targetEnemies

\* the notification carrying the cooldown before the frame
onCooldownUpdateArgs_Previous(c, newCooldown) == <<c, TEAM_SPECIAL_COOLDOWN>>

\* the arguments of the onCooldownUpdate call of a frame whose closure has
\* cooldown c: the new value and WINGMAN_CONFIG.TEAM_SPECIAL_COOLDOWN
onCooldownUpdateArgs(c, newCooldown) == <<newCooldown, TEAM_SPECIAL_COOLDOWN>>

\* an escape exit that leaves the active flag set
EscapeExit_StaysActive(p) ==
  [p EXCEPT !.phase = NextPhase(phase),
            !.cooldown = TEAM_SPECIAL_COOLDOWN,
            !.attackEffects = <<>>, !.effectsSet = TRUE,
            !.targetEnemies = <<>>]

\* an escape exit without the clear of the live effects
EscapeExit_KeepsEffects(p) ==
  [p EXCEPT !.phase = NextPhase(phase), !.isActive = FALSE,
            !.cooldown = TEAM_SPECIAL_COOLDOWN,
            !.targetEnemies = <<>>]

\* the state updates of the escape exit (escapeProgress >= 1), on the
\* queued state p
EscapeExit(p) ==
  [p EXCEPT !.phase = NextPhase(phase), !.isActive = FALSE,
            !.cooldown = TEAM_SPECIAL_COOLDOWN,
            !.attackEffects = <<>>, !.effectsSet = TRUE,
            !.targetEnemies = <<>>]

Tick(d) ==
  LET adv == d - sinceFrame
      el == Min(elapsed + adv, ElapsedCap)
      \* main loop, src 578-651, on the rendered values
      newCooldown == NewCooldown(cooldown, d)
      p1 == IF CooldownRunning(cooldown)
            THEN [pending EXCEPT !.cooldown = newCooldown]
            ELSE pending
      approachDone == ApproachDone(el)
      attackDone == AttackDone(el)
      escapeDone == EscapeDone(el)
      effects == executeAttack(selectedWingman, TargetsRead)
      p2 == CASE approachDone ->
                   [p1 EXCEPT !.phase = NextPhase(phase),
                              !.attackEffects = effects,
                              !.effectsSet = TRUE]
              [] attackDone -> [p1 EXCEPT !.phase = NextPhase(phase)]
              [] escapeDone -> EscapeExit(p1)
              [] OTHER -> p1
      \* the mounted effects' useFrame callbacks, in mount order
      aged == [id \in DOMAIN children |-> ChildAged(children[id], adv)]
      moved == [id \in DOMAIN children |-> ChildFrame(aged[id], d)]
      order == [k \in 1..Len(attackEffects) |-> attackEffects[k].id]
      hits == SelectSeq(order, LAMBDA id :
                id \in DOMAIN moved /\ moved[id].type = "gatling"
                /\ moved[id].active /\ GatlingHit(moved[id]))
      impacts == {id \in DOMAIN aged : MissileImpact(aged[id])}
      p3 == CompleteAll([p2 EXCEPT !.explosions = Aged(@, adv),
                                   !.wingmanPosition = WingmanMoved(@, el)],
                        attackEffects, hits)
  IN  /\ d \in Deltas
      /\ adv > 0
      /\ MayPass(adv)
      /\ dirty => StaleFrame(d)
      /\ pending' = p3
      /\ elapsed' = PhaseStart(el, approachDone, attackDone)
      /\ sinceFrame' = 0
      /\ children' = moved
      /\ timers' = TimersAfter(adv) \o
                   [k \in 1..Len(SeqOf(attackEffects, impacts)) |->
                     [kind |-> "impact", id |-> SeqOf(attackEffects, impacts)[k].id,
                      rem |-> MISSILE_IMPACT_DELAY,
                      age |-> aged[SeqOf(attackEffects, impacts)[k].id].age,
                      closure |-> attackEffects]]
      /\ cleanupIn' = CleanupAfter(adv)
      /\ explosions' = Aged(explosions, adv)
      /\ dirty' = (dirty \/ cooldown > 0 \/ isActive \/ hits # <<>>
                   \/ impacts # {})
      /\ staleMs' = IF dirty THEN Min(staleMs + d, MaxRenderLag) ELSE 0
      /\ ev' = [NoEvent("tick") EXCEPT
                  !.delta = d,
                  !.onCooldownUpdate =
                     IF CooldownRunning(cooldown)
                     THEN <<onCooldownUpdateArgs(cooldown, newCooldown)>>
                     ELSE <<>>,
                  !.onEnemiesDestroyed =
                     IF attackDone
                     THEN <<DestroyedIds(TargetsRead)>>
                     ELSE <<>>,
                  !.executeAttack = IF approachDone THEN 1 ELSE 0,
                  !.escapeExit = escapeDone,
                  !.completed = hits]
      /\ host' = HostMirror(host, ev')
      /\ cycle' = [cycle EXCEPT
                  !.executions = IF approachDone THEN Bump(@) ELSE @,
                  !.destroyed = IF attackDone THEN Bump(@) ELSE @,
                  !.snapshot = IF escapeDone THEN <<>> ELSE @,
                  !.variant = IF approachDone THEN -1 ELSE @,
                  !.sinceIdle = IF escapeDone THEN 0
                                ELSE IF @ < 0 THEN @
                                ELSE Min(@ + d, TEAM_SPECIAL_COOLDOWN)]
      /\ completions' = IF approachDone
                        THEN [id \in Ids(effects) |-> 0]
                        ELSE CountUp(completions, hits)
      /\ UNCHANGED <<cooldown, isActive, phase, attackEffects, targetEnemies,
                     wingmanPosition, enemies, selectedWingman>>

\* time passes up to the next timer, between two frames
Advance ==
  LET due == {timers[k].rem : k \in 1..Len(timers)} \cup
             (IF pending.explosions # <<>> THEN {cleanupIn} ELSE {})
      adv == CHOOSE r \in due : \A q \in due : r <= q
  IN  /\ due # {}
      /\ adv > 0
      /\ \E d \in FxDeltas : sinceFrame + adv < d
      /\ timers' = TimersAfter(adv)
      /\ cleanupIn' = CleanupAfter(adv)
      /\ elapsed' = Min(elapsed + adv, ElapsedCap)
      /\ sinceFrame' = sinceFrame + adv
      /\ children' = [id \in DOMAIN children |-> ChildAged(children[id], adv)]
      /\ explosions' = Aged(explosions, adv)
      /\ pending' = [pending EXCEPT !.explosions = Aged(@, adv)]
      /\ ev' = NoEvent("advance")
      /\ UNCHANGED <<cooldown, isActive, phase, attackEffects, targetEnemies,
                     wingmanPosition, host, dirty, staleMs, enemies, selectedWingman, cycle,
                     completions>>


\* ------------------------------------------------------------------------
\* Timers
\* ------------------------------------------------------------------------
\* setActive / setCompleted / setExploded / setPhase of a child: a no-op once
\* the component is unmounted
SetChild(id, field, value) ==
  IF id \in DOMAIN children
  THEN [children EXCEPT ![id] = IF field = "active"
                                THEN [@ EXCEPT !.activeQ = value]
                                ELSE [@ EXCEPT !.doneQ = value]]
  ELSE children

\* a completion signalled as soon as the burst stage begins
completeTimer_AtOnce(t) ==
  [kind |-> "chainComplete", id |-> t.id, rem |-> 0, age |-> t.age,
   closure |-> t.closure]

\* the completeTimer the chain's explodeTimer callback sets
completeTimer(t) ==
  [kind |-> "chainComplete", id |-> t.id,
   rem |-> LIGHTNING_EXPLODE_DURATION, age |-> t.age, closure |-> t.closure]

Without(k) == SubSeq(timers, 1, k - 1) \o SubSeq(timers, k + 1, Len(timers))

\* the callback of the k-th timer set; timers due at the same time run in the
\* order they were set
Fire(k) ==
  LET t == timers[k] IN
  /\ t.rem = 0
  /\ \A m \in 1..(k - 1) : timers[m].rem # 0
  /\ dirty' = TRUE
  /\ CASE t.kind = "start" ->
            \* GatlingProjectile 97-103, BeamEffect 139-148,
            \* LightningChain 188-205, Missile 300-303
            /\ children' = SetChild(t.id, "active", TRUE)
            /\ timers' = Without(k) \o
                 (CASE t.id[1] = "beam" ->
                         <<[kind |-> "beamEnd", id |-> t.id,
                            rem |-> BEAM_LOCK_DURATION, age |-> t.age,
                            closure |-> t.closure]>>
                    [] t.id[1] = "lightning" ->
                         <<[kind |-> "explode", id |-> t.id,
                            rem |-> LIGHTNING_CHAIN_DURATION, age |-> t.age,
                            closure |-> t.closure]>>
                    [] OTHER -> <<>>)
            /\ ev' = [NoEvent("start") EXCEPT !.fired = <<t.kind, t.id, t.age>>]
            /\ UNCHANGED <<pending, completions>>
       [] t.kind = "beamEnd" ->
            \* BeamEffect 142-145
            /\ children' = SetChild(t.id, "done", TRUE)
            /\ timers' = Without(k)
            /\ pending' = handleEffectComplete(pending, t.closure, t.id)
            /\ completions' = CountUp(completions, <<t.id>>)
            /\ ev' = [NoEvent("beamEnd") EXCEPT
                        !.completed = <<t.id>>,
                        !.fired = <<t.kind, t.id, t.age>>]
       [] t.kind = "explode" ->
            \* LightningChain 192-202
            /\ children' = SetChild(t.id, "done", TRUE)
            /\ timers' = Append(Without(k), completeTimer(t))
            /\ ev' = [NoEvent("explode") EXCEPT !.fired = <<t.kind, t.id, t.age>>]
            /\ UNCHANGED <<pending, completions>>
       [] t.kind = "chainComplete" ->
            \* LightningChain 197-199 calling handleLightningComplete 551-564
            /\ pending' = handleLightningComplete(pending)
            /\ timers' = Without(k) \o ChainExplosionTimers(t.closure)
            /\ completions' = CountUp(completions, <<t.id>>)
            /\ ev' = [NoEvent("chainComplete") EXCEPT
                        !.completed = <<t.id>>,
                        !.fired = <<t.kind, t.id, t.age>>]
            /\ UNCHANGED children
       [] t.kind = "impact" ->
            \* Missile 331
            /\ pending' = handleEffectComplete(pending, t.closure, t.id)
            /\ timers' = Without(k)
            /\ completions' = CountUp(completions, <<t.id>>)
            /\ ev' = [NoEvent("impact") EXCEPT
                        !.completed = <<t.id>>,
                        !.fired = <<t.kind, t.id, t.age>>]
            /\ UNCHANGED children
       [] t.kind = "chainExplosion" ->
            \* handleLightningComplete 556-562
            /\ pending' = [pending EXCEPT !.explosions =
                             Append(@, [position |-> t.closure[1], age |-> 0])]
            /\ timers' = Without(k)
            /\ ev' = [NoEvent("chainExplosion") EXCEPT !.fired = <<t.kind, t.id, t.age>>]
            /\ UNCHANGED <<children, completions>>
  /\ UNCHANGED <<stateVars, staleMs, enemies, selectedWingman, elapsed,
                 sinceFrame, cleanupIn, host, cycle>>

TimerFires == \E k \in 1..Len(timers) : Fire(k)

\* the cleanup interval's callback (src 567-575)
Cleanup ==
  /\ CleanupDue
  /\ pending' = [pending EXCEPT !.explosions =
                   SelectSeq(@, LAMBDA e : ~Expired(e))]
  /\ cleanupIn' = CLEANUP_INTERVAL
  /\ dirty' = TRUE
  /\ ev' = [NoEvent("cleanup") EXCEPT !.swept =
               SelectSeq(pending.explosions, Expired)]
  /\ UNCHANGED <<stateVars, staleMs, enemies, selectedWingman, elapsed,
                 sinceFrame, children, timers, host, cycle, completions>>

\* ------------------------------------------------------------------------
\* Render: React applies the queued updates, (un)mounts effect components
\* and runs their effects
\* ------------------------------------------------------------------------
Commit(newEnemies, newWingman, mount, name) ==
  LET effects == pending.attackEffects
      ids == Ids(effects)
      desc(id) == effects[CHOOSE k \in 1..Len(effects) : effects[k].id = id]
      stay == ids \cap DOMAIN children
      fresh == ids \ DOMAIN children
      gone == DOMAIN children \ ids
      \* handleEffectComplete is a new function: its deps changed
      rebound == pending.effectsSet \/ newWingman # selectedWingman
      rerun == IF rebound THEN {id \in stay : children[id].type = "beam"} ELSE {}
      kept == SelectSeq(timers, LAMBDA t :
                ~(t.kind = "start" /\ t.id \in gone \cup rerun))
  IN  /\ cooldown' = pending.cooldown
      /\ isActive' = pending.isActive
      /\ phase' = pending.phase
      /\ attackEffects' = effects
      /\ explosions' = pending.explosions
      /\ targetEnemies' = pending.targetEnemies
      /\ wingmanPosition' = pending.wingmanPosition
      /\ pending' = [pending EXCEPT !.effectsSet = FALSE]
      /\ dirty' = FALSE
      /\ staleMs' = 0
      /\ enemies' = newEnemies
      /\ selectedWingman' = newWingman
      /\ children' = [id \in (IF mount THEN ids ELSE {}) |->
                        IF id \in stay
                        THEN [children[id] EXCEPT !.active = @ \/ children[id].activeQ,
                                                  !.done = @ \/ children[id].doneQ]
                        ELSE Mounted(desc(id))]
      /\ timers' = IF mount
                   THEN kept \o
                          [k \in 1..Len(SeqOf(effects, fresh \cup rerun)) |->
                             LET d == SeqOf(effects, fresh \cup rerun)[k]
                             IN  StartTimer(d, effects, pending.targetEnemies,
                                            IF d.id \in stay
                                            THEN children[d.id].age ELSE 0)]
                   ELSE timers
      /\ ev' = NoEvent(name)
      /\ cycle' = IF phase # "idle" /\ pending.phase = "idle"
                  THEN [cycle EXCEPT !.executions = 0, !.destroyed = 0]
                  ELSE IF phase = "idle" /\ pending.phase # "idle"
                       THEN [cycle EXCEPT !.sinceIdle = -1]
                       ELSE cycle
      /\ completions' = IF phase # "idle" /\ pending.phase = "idle"
                        THEN << >> ELSE completions
      /\ UNCHANGED <<elapsed, sinceFrame, cleanupIn, host>>

\* the scheduled render
Render == dirty /\ Commit(enemies, selectedWingman, FALSE, "render")

\* the unit is approaching or attacking and no update is queued
InProgress == isActive /\ phase \in {"approach", "attack"} /\ ~dirty

\* the host re-renders with a new enemies prop during an activation
HostSetEnemies ==
  /\ InProgress
  /\ \E list \in EnemyLists :
       list # enemies /\ Commit(list, selectedWingman, FALSE, "render")

\* the host re-renders with a new selectedWingman prop (the selector HUD)
\* during an activation
HostSelect ==
  /\ InProgress
  /\ \E w \in Wingmen :
       w # selectedWingman /\ Commit(enemies, w, FALSE, "render")

Trigger == triggerTeamSpecial

Frame == \E d \in FrameDeltas \cup LongDeltas : Tick(d)

\* The ability state machine: WingmanSupport's own hooks.  The effect
\* components it renders are left unmounted; their callbacks write only
\* attackEffects and explosions, which no hook of the state machine reads.
Next ==
  \/ Trigger
  \/ Frame
  \/ Render
  \/ HostSetEnemies
  \/ HostSelect

Spec == Init /\ [][Next]_vars

\* the scheduled render, mounting and unmounting the effect components
RenderFx == dirty /\ Commit(enemies, selectedWingman, TRUE, "render")

FrameFx == \E d \in FxDeltas \cup LongDeltas : Tick(d)

\* The state machine together with the effect components and their timers.
NextFx ==
  \/ Trigger
  \/ FrameFx
  \/ Advance
  \/ TimerFires
  \/ Cleanup
  \/ RenderFx

SpecFx == Init /\ [][NextFx]_vars

\* The component rendered by a host with a swarm of SwarmSize targets and
\* the chain variant selected.
SwarmSize == 44
Swarm == [i \in 1..SwarmSize |-> [id |-> i, position |-> 100 - i]]

InitSwarm ==
  /\ cooldown = 0
  /\ isActive = FALSE
  /\ phase = "idle"
  /\ attackEffects = <<>>
  /\ explosions = <<>>
  /\ targetEnemies = <<>>
  /\ wingmanPosition = Vector3
  /\ pending = [cooldown |-> 0, isActive |-> FALSE, phase |-> "idle",
                attackEffects |-> <<>>, explosions |-> <<>>,
                targetEnemies |-> <<>>, effectsSet |-> FALSE,
                wingmanPosition |-> Vector3]
  /\ dirty = FALSE
  /\ staleMs = 0
  /\ enemies = Swarm
  /\ selectedWingman = 2
  /\ elapsed = ElapsedCap
  /\ sinceFrame = 0
  /\ children = << >>
  /\ timers = <<>>
  /\ cleanupIn = CLEANUP_INTERVAL
  /\ host = [cooldown |-> 0, isActive |-> FALSE]
  /\ ev = NoEvent("init")
  /\ cycle = [executions |-> 0, destroyed |-> 0, snapshot |-> <<>>,
              sinceIdle |-> -1, variant |-> -1]
  /\ completions = << >>

SpecSwarm == InitSwarm /\ [][NextFx]_vars

\* The ability state machine with frames and renders that keep arriving.
FairSpec == Spec /\ WF_vars(Frame) /\ WF_vars(Render)

\* ------------------------------------------------------------------------
\* Properties
\* ------------------------------------------------------------------------
Phases == {"idle", "approach", "attack", "escape"}
\* a step of the named operation (every operation records itself in ev)
Did(name) == ev'.op = name /\ vars' # vars
SnapshotIds == [k \in 1..Len(cycle.snapshot) |-> cycle.snapshot[k].id]

\* C1: an Activate made while the phase is not idle, or the cooldown is
\* positive, or the target list is empty returns false, fires no activation
\* notification and leaves phase, cooldown, snapshot, active flag, live
\* effects, every queued update and the phase clock as they were.
C1_RejectedActivateChangesNothing ==
  [][(Did("trigger")
      /\ (phase # "idle" \/ cooldown > 0 \/ Len(enemies) = 0))
     => /\ ev'.returned = "false"
        /\ ev'.onActivate = <<>>
        /\ UNCHANGED <<cooldown, isActive, phase, attackEffects, explosions,
                       targetEnemies, pending, dirty, elapsed, cycle>>]_vars

\* a rejected Activate during the attack, with effects live
C1_Witness ==
  /\ ev.op = "trigger" /\ ev.returned = "false"
  /\ phase = "attack" /\ attackEffects # <<>> /\ cooldown = 0
  /\ Len(enemies) > 0

\* C2: the elimination notification carries exactly the ids of the snapshot
\* taken at Activate, in its order, each once, for every variant and every
\* snapshot size N >= 1.
C2_NotificationCarriesSnapshotIds ==
  ev.onEnemiesDestroyed # <<>> =>
    /\ Len(ev.onEnemiesDestroyed) = 1
    /\ ev.onEnemiesDestroyed[1] = SnapshotIds
    /\ Len(SnapshotIds) >= 1
    /\ Distinct(SnapshotIds)

\* the notification of a two-target snapshot, the host's list having changed
\* since
C2_Witness ==
  /\ ev.onEnemiesDestroyed # <<>>
  /\ Len(ev.onEnemiesDestroyed[1]) = MaxTargets
  /\ enemies # cycle.snapshot

\* C3: the elimination notification is fired only by the frame that moves
\* the phase from attack to escape, at most once per activation, and it has
\* been fired once when the activation returns to idle, whatever frames run
\* between that frame and the render of its phase (within MaxRenderLag).
C3_DestroyedOncePerActivation ==
  [][/\ ev'.onEnemiesDestroyed # <<>> =>
          /\ Did("tick")
          /\ phase = "attack" /\ pending.phase = "attack"
          /\ pending'.phase = "escape"
          /\ cycle.destroyed = 0
     /\ (Did("tick") /\ phase = "attack" /\ pending'.phase = "escape"
         /\ pending.phase = "attack") => ev'.onEnemiesDestroyed # <<>>
     /\ (phase # "idle" /\ phase' = "idle") => cycle.destroyed = 1]_vars

\* a frame that ran after the notifying frame and before the render of the
\* escape phase, and notified nothing
C3_Witness ==
  /\ phase = "attack" /\ pending.phase = "escape"
  /\ cycle.destroyed = 1
  /\ ev.op = "tick" /\ ev.onEnemiesDestroyed = <<>>

\* C4: an accepted Activate is followed by the escape exit and the render of
\* the idle phase, where the snapshot and the live effects are empty; no
\* host action stops it.  (The escape exit is reached through the approach,
\* the attack and the escape phase only: C8.)
C4_ActivationRunsToIdle ==
  (ev.op = "trigger" /\ ev.returned = "true") ~>
    (phase = "idle" /\ ~isActive /\ cycle.sinceIdle = 0
     /\ targetEnemies = <<>> /\ attackEffects = <<>>)

\* the render of the return to idle after a full cycle
C4_Witness ==
  /\ phase = "idle" /\ ~isActive /\ cooldown = TEAM_SPECIAL_COOLDOWN
  /\ cycle.sinceIdle = 0
  /\ targetEnemies = <<>> /\ attackEffects = <<>>

\* C5: after the escape exit every frame with a positive cooldown strictly
\* lowers it (down to 0 at most), and no step but the escape exit raises it,
\* frames that run before the render of the previous frame's value
\* included.  The cooldown is the latest value given to setCooldown.
C5_CooldownStrictlyDecreases ==
  [][/\ (Did("tick") /\ pending.cooldown > 0 /\ ~ev'.escapeExit)
          => pending'.cooldown < pending.cooldown
     /\ pending'.cooldown > pending.cooldown => ev'.escapeExit]_vars

\* C6: the cooldown, rendered or queued, is within 0..TEAM_SPECIAL_COOLDOWN;
\* a step that assigns it is the escape exit, assigning the maximum, or a
\* frame assigning the clamped decrement of the cooldown it read.
C6_CooldownRangeAndAssignments ==
  /\ [](cooldown \in 0..TEAM_SPECIAL_COOLDOWN
        /\ pending.cooldown \in 0..TEAM_SPECIAL_COOLDOWN)
  /\ [][pending'.cooldown # pending.cooldown =>
          /\ Did("tick")
          /\ \/ ev'.escapeExit /\ pending'.cooldown = TEAM_SPECIAL_COOLDOWN
             \/ /\ ~ev'.escapeExit /\ cooldown > 0
                /\ pending'.cooldown = Max(0, cooldown - ev'.delta)]_vars

\* a frame whose delta exceeds the cooldown, clamped at 0
C6_Witness ==
  /\ ev.op = "tick" /\ ev.delta > cooldown /\ cooldown > 0
  /\ pending.cooldown = 0

\* C7: from the escape exit on, until frames with deltas summing to
\* TEAM_SPECIAL_COOLDOWN have run, the phase stays idle and no Activate is
\* accepted.
C7_NoActivationBeforeCooldownElapsed ==
  (cycle.sinceIdle >= 0 /\ cycle.sinceIdle < TEAM_SPECIAL_COOLDOWN) =>
    /\ pending.phase = "idle" /\ phase \in {"escape", "idle"}
    /\ ~(ev.op = "trigger" /\ ev.returned = "true")
    /\ (phase = "idle" => cooldown > 0 \/ pending.cooldown > 0)

\* the next Activate accepted, TEAM_SPECIAL_COOLDOWN ms of frames after the
\* escape exit
C7_Witness ==
  /\ ev.op = "trigger" /\ ev.returned = "true"
  /\ cycle.sinceIdle = TEAM_SPECIAL_COOLDOWN

\* C8: the phase is one of the four, and it changes only from idle to
\* approach (by an accepted Activate), approach to attack, attack to escape
\* and escape to idle, in the queued value and in the rendered one.
PhaseStep(a, b) ==
  \/ a = b
  \/ <<a, b>> \in {<<"idle", "approach">>, <<"approach", "attack">>,
                   <<"attack", "escape">>, <<"escape", "idle">>}

C8_PhaseTransitions ==
  /\ [](phase \in Phases /\ pending.phase \in Phases)
  /\ [][/\ PhaseStep(phase, phase')
        /\ PhaseStep(pending.phase, pending'.phase)
        /\ (pending.phase = "idle" /\ pending'.phase = "approach")
             => (Did("trigger") /\ ev'.returned = "true")]_vars

\* the escape exit of an activation that went through every phase
C8_Witness ==
  /\ phase = "escape" /\ pending.phase = "idle"
  /\ cycle.executions = 1 /\ cycle.destroyed = 1

\* C9: executeAttack runs only in the frame of the approach phase in which
\* elapsed first reaches APPROACH_DURATION, the frame that queues the attack
\* phase with the generated effects; it has run once when the attack phase
\* is rendered and does not run again for the activation, whatever frames
\* run before that render (within MaxRenderLag).
C9_ExecuteAttackOncePerActivation ==
  [][/\ ev'.executeAttack > 0 =>
          /\ Did("tick")
          /\ ev'.executeAttack = 1
          /\ phase = "approach" /\ pending.phase = "approach"
          /\ elapsed < APPROACH_DURATION
          /\ elapsed + ev'.delta >= APPROACH_DURATION
          /\ pending'.phase = "attack"
          /\ pending'.attackEffects =
               executeAttack(selectedWingman, targetEnemies)
          /\ cycle.executions = 0
     /\ (phase = "approach" /\ phase' = "attack") =>
          /\ cycle.executions = 1
          /\ attackEffects' = executeAttack(selectedWingman, targetEnemies)
     /\ (phase # "idle" /\ phase' = "idle") => cycle.executions = 1]_vars

\* a frame that ran after the generating frame and before the render of the
\* attack phase, and generated nothing
C9_Witness ==
  /\ phase = "approach" /\ pending.phase = "attack"
  /\ cycle.executions = 1
  /\ ev.op = "tick" /\ ev.executeAttack = 0

\* C10: no effect instance's completion handler is called twice, and when
\* the activation returns to idle every instance it created has called it
\* once.
C10_EveryEffectCompletesOnce ==
  /\ [](\A id \in DOMAIN completions : completions[id] <= 1)
  /\ [][(phase # "idle" /\ phase' = "idle") =>
          \A id \in DOMAIN completions : completions[id] = 1]_vars

\* C11: when a frame moves the phase from attack to escape, every effect
\* instance created at the attack entry has called its completion handler
\* (has raised its elimination event), for every variant and snapshot size.
C11_EffectsCompleteBeforeEscape ==
  [][(Did("tick") /\ pending.phase = "attack" /\ pending'.phase = "escape")
       => \A id \in DOMAIN completions' : completions'[id] >= 1]_vars

\* C12: for a snapshot of N targets the attack generator returns 5 * N
\* descriptors for variant 0, N for variants 1 and 3, and for variant 2 one
\* descriptor when N >= 1 and none when N = 0; so does the generation of
\* every activation.
DescriptorCount(w, n) ==
  CASE w = 0 -> 5 * n
    [] w = 1 -> n
    [] w = 2 -> IF n >= 1 THEN 1 ELSE 0
    [] w = 3 -> n

\* the generator's counts over every variant and target list
GeneratorCounts ==
  \A w \in Wingmen : \A list \in EnemyLists :
    Len(executeAttack(w, list)) = DescriptorCount(w, Len(list))

\* C12: the attack generator returns DescriptorCount descriptors for every
\* variant and target list, and so does the generation of every activation.
C12_DescriptorCounts ==
  /\ GeneratorCounts
  /\ ev.executeAttack = 1 =>
       Len(pending.attackEffects) =
         DescriptorCount(selectedWingman, Len(targetEnemies))

\* the burst generated for a full snapshot
C12_Witness ==
  /\ ev.executeAttack = 1 /\ selectedWingman = 0
  /\ Len(targetEnemies) = MaxTargets
  /\ Len(pending.attackEffects) = 5 * MaxTargets

\* C13: an accepted Activate calls onActivate once, with the selected
\* variant's index and its display name; a rejected Activate, and every
\* other step, does not call it.
VariantName(w) ==
  CASE w = 0 -> "FALCO" [] w = 1 -> "SLIPPY" [] w = 2 -> "PEPPY"
    [] w = 3 -> "KRYSTAL"

C13_ActivationNotifiedOncePerAccept ==
  [][/\ (Did("trigger") /\ ev'.returned = "true") =>
          ev'.onActivate = <<<<selectedWingman, VariantName(selectedWingman)>>>>
     /\ ev'.returned # "true" => ev'.onActivate = <<>>]_vars

\* the notification of an accepted Activate of the last variant
C13_Witness ==
  /\ ev.op = "trigger" /\ ev.returned = "true"
  /\ ev.onActivate = <<<<3, "KRYSTAL">>>>

\* C14: a frame that starts with a positive cooldown calls onCooldownUpdate
\* once, with that cooldown lowered by the frame's delta and clamped at 0,
\* and the maximum, in every phase; a frame that starts with cooldown 0
\* does not call it.  The cooldown is the latest value given to setCooldown.
C14_CooldownNotifiedEveryTick ==
  [][Did("tick") =>
       /\ pending.cooldown > 0 =>
            ev'.onCooldownUpdate =
              <<<<Max(0, pending.cooldown - ev'.delta), TEAM_SPECIAL_COOLDOWN>>>>
       /\ pending.cooldown = 0 => ev'.onCooldownUpdate = <<>>]_vars

\* C15: the target list is read at the accepted Activate only: the
\* generator runs on the list supplied at Activate and the elimination
\* notification carries its ids in its order, and a change of the host's
\* list during the approach or the attack changes neither the snapshot nor
\* its queued value.
C15_SnapshotReadOnceAtActivate ==
  [][/\ (Did("trigger") /\ ev'.returned = "true") =>
          pending'.targetEnemies = enemies
     /\ ev'.executeAttack = 1 =>
          pending'.attackEffects = executeAttack(selectedWingman, cycle.snapshot)
     /\ ev'.onEnemiesDestroyed # <<>> =>
          ev'.onEnemiesDestroyed = <<SnapshotIds>>
     /\ enemies' # enemies =>
          /\ targetEnemies' = targetEnemies
          /\ pending'.targetEnemies = pending.targetEnemies
          /\ cycle'.snapshot = cycle.snapshot]_vars

\* the generator run for a full snapshot after the host's list has changed
C15_Witness ==
  /\ ev.executeAttack = 1
  /\ Len(cycle.snapshot) = MaxTargets
  /\ enemies # cycle.snapshot
  /\ pending.attackEffects = executeAttack(selectedWingman, cycle.snapshot)
  /\ pending.attackEffects # executeAttack(selectedWingman, enemies)

\* C16: from an accepted Activate until the escape exit every further
\* Activate returns false and fires no activation notification, a call made
\* before the render of the accepted one included.
C16_ActivateRejectedWhileInProgress ==
  [][(Did("trigger") /\ pending.isActive) =>
       /\ ev'.returned = "false"
       /\ ev'.onActivate = <<>>]_vars

\* C17: the variant the generator dispatches on at the approach exit is the
\* variant the activation's onActivate call carried, whatever the host
\* selects during the approach.
C17_VariantFixedForActivation ==
  [][ev'.executeAttack = 1 =>
       pending'.attackEffects = executeAttack(cycle.variant, targetEnemies)]_vars

\* C18: the phase advances in a frame, by the time since the phase was
\* entered only: approach to attack in the frame where it is at least
\* 1000 ms, attack to escape where it is above 2000 ms, escape to idle where
\* it is at least 1500 ms, not before and not later, whether effects are
\* live or not; no timer, completion, cleanup or render advances the phase.
C18_TransitionsByElapsedTimeOnly ==
  [][LET el == Min(elapsed + ev'.delta - sinceFrame, ElapsedCap)
     IN  /\ Did("tick") =>
              /\ pending.phase = "approach" =>
                   (pending'.phase = "attack" <=> el >= 1000)
              /\ pending.phase = "attack" =>
                   (pending'.phase = "escape" <=> el > 2000)
              /\ pending.phase = "escape" =>
                   (pending'.phase = "idle" <=> el >= 1500)
         /\ pending'.phase # pending.phase =>
              Did("tick") \/ (Did("trigger") /\ pending.phase = "idle")]_vars

\* the attack exit with effects still live
C18_Witness ==
  /\ ev.op = "tick" /\ phase = "attack" /\ pending.phase = "escape"
  /\ elapsed = 0
  /\ pending.attackEffects # <<>> /\ DOMAIN children # {}

\* C19: the frame that exits the escape phase leaves the cooldown at exactly
\* TEAM_SPECIAL_COOLDOWN, not lowered by that frame's delta, and calls
\* onCooldownUpdate not at all; the render of the idle phase shows that
\* value.
C19_EscapeExitSetsFullCooldown ==
  [][/\ ev'.escapeExit =>
          /\ Did("tick")
          /\ pending'.cooldown = 45000
          /\ ev'.onCooldownUpdate = <<>>
     /\ (phase = "escape" /\ phase' = "idle") => cooldown' = 45000]_vars

\* the escape exit, by a frame with a positive delta, and the full cooldown
\* it queued
C19_Witness ==
  /\ ev.op = "tick" /\ ev.escapeExit /\ ev.delta > 0
  /\ ev.onCooldownUpdate = <<>>
  /\ cooldown = 0 /\ pending.cooldown = 45000

\* C20: in the generated array, shot j (0..4) at target index i of variant 0
\* has start delay j * 50 + i * 30, so the delays span 0 .. 200 + 30 * (N - 1);
\* beam i of variant 1 has delay i * 50; the chain descriptor of variant 2
\* and every missile of variant 3 have delay 0; and each per-target
\* descriptor targets the position of the snapshot target of its index.
DelayLaw(w, targets, effects) ==
  LET N == Len(targets)
      delays == {effects[k].delay : k \in 1..Len(effects)}
  IN  CASE w = 0 ->
             /\ Len(effects) = 5 * N
             /\ \A i \in 0..(N - 1) : \A j \in 0..4 :
                  /\ effects[5 * i + j + 1].delay = j * 50 + i * 30
                  /\ effects[5 * i + j + 1].targetPosition =
                       targets[i + 1].position
             /\ N >= 1 => /\ delays \subseteq 0..(200 + 30 * (N - 1))
                          /\ 0 \in delays
                          /\ 200 + 30 * (N - 1) \in delays
        [] w = 1 ->
             /\ Len(effects) = N
             /\ \A i \in 0..(N - 1) :
                  /\ effects[i + 1].delay = i * 50
                  /\ effects[i + 1].targetPosition = targets[i + 1].position
        [] w = 2 -> delays \subseteq {0}
        [] w = 3 ->
             /\ Len(effects) = N
             /\ \A i \in 0..(N - 1) :
                  /\ effects[i + 1].delay = 0
                  /\ effects[i + 1].targetPosition = targets[i + 1].position

\* the generator's delays over every variant and target list
GeneratorDelays ==
  \A w \in Wingmen : \A list \in EnemyLists :
    DelayLaw(w, list, executeAttack(w, list))

\* C20: the descriptors of every variant and target list carry the start
\* delays of DelayLaw, and so do those generated by every activation.
C20_StartDelays ==
  /\ GeneratorDelays
  /\ ev.executeAttack = 1 =>
       DelayLaw(selectedWingman, targetEnemies, pending.attackEffects)

\* the staggered beams generated for a full snapshot
C20_Witness ==
  /\ ev.executeAttack = 1 /\ selectedWingman = 1
  /\ Len(targetEnemies) = MaxTargets
  /\ Len(pending.attackEffects) = MaxTargets
  /\ pending.attackEffects[MaxTargets].delay = (MaxTargets - 1) * 50

\* C21: for variant 2 and N >= 1 targets there is one chain descriptor; its
\* position sequence has N + 1 entries, the first is the attack pose, the
\* other N are the snapshot targets' positions, each as often as in the
\* snapshot, in non-decreasing distance from the attack pose; the snapshot
\* keeps its order.
Occurrences(seq, x) == Cardinality({k \in 1..Len(seq) : seq[k] = x})

ChainLaw(targets, effects) ==
  LET N == Len(targets)
      chain == effects[1].positions
      rest == Tail(chain)
  IN  N >= 1 =>
        /\ Len(effects) = 1
        /\ Len(chain) = N + 1
        /\ chain[1] = 0
        /\ \A k \in 1..N :
             Occurrences(rest, targets[k].position) =
               Occurrences([m \in 1..N |-> targets[m].position],
                           targets[k].position)
        /\ \A k \in 1..(N - 1) : rest[k] <= rest[k + 1]

\* the generator's chain over every target list
GeneratorChains ==
  \A list \in EnemyLists : ChainLaw(list, executeAttack(2, list))

\* C21: the chain descriptor of every target list obeys ChainLaw (N + 1
\* positions, the origin first, the targets' positions in order of distance),
\* so does the chain of every activation, and the snapshot keeps its order.
C21_ChainPositionsSortedByDistance ==
  /\ GeneratorChains
  /\ (ev.executeAttack = 1 /\ selectedWingman = 2) =>
       /\ ChainLaw(targetEnemies, pending.attackEffects)
       /\ targetEnemies = cycle.snapshot
       /\ pending.targetEnemies = cycle.snapshot

\* the chain generated for a full snapshot that is not in order of distance
C21_Witness ==
  /\ ev.executeAttack = 1 /\ selectedWingman = 2
  /\ Len(targetEnemies) = MaxTargets
  /\ targetEnemies[1].position > targetEnemies[2].position
  /\ pending.attackEffects[1].positions[2] = targetEnemies[2].position
  /\ pending.targetEnemies = targetEnemies

\* C22: the beam for target index i signals completion i * 50 + 100 ms after
\* it was created at the attack entry (its start delay plus the lock
\* duration), whatever the other beams do.
C22_BeamCompletesAtFixedTime ==
  [][(ev'.fired # <<>> /\ ev'.fired[1] = "beamEnd") =>
       ev'.fired[3] = ev'.fired[2][2] * 50 + 100]_vars

\* C23: an effect instance is inert until its start delay has passed since
\* it was created: it becomes active only by its start timer, not before
\* the delay, it is rendered active only after that, and it signals
\* completion only when active and not before the delay.
C23_InertBeforeStartDelay ==
  [][/\ \A id \in DOMAIN children \cap DOMAIN children' :
          /\ (children'[id].activeQ /\ ~children[id].activeQ) =>
               /\ ev'.fired # <<>>
               /\ ev'.fired[1] = "start" /\ ev'.fired[2] = id
               /\ children[id].age >= children[id].delay
          /\ (children'[id].active /\ ~children[id].active) =>
               children[id].activeQ
     /\ \A k \in 1..Len(ev'.completed) :
          LET id == ev'.completed[k]
          IN  /\ id \in DOMAIN children =>
                   /\ children[id].activeQ
                   /\ children'[id].age >= children[id].delay
              /\ ev'.fired # <<>> =>
                   ev'.fired[3] >=
                     (CASE id[1] = "gatling" -> id[3] * 50 + id[2] * 30
                        [] id[1] = "beam" -> id[2] * 50
                        [] OTHER -> 0)]_vars

\* an instance with a positive delay becoming active when the delay has
\* passed
C23_Witness ==
  /\ ev.op = "start"
  /\ ev.fired[2] \in DOMAIN children
  /\ children[ev.fired[2]].delay > 0
  /\ children[ev.fired[2]].activeQ /\ ~children[ev.fired[2]].active
  /\ children[ev.fired[2]].age = children[ev.fired[2]].delay

\* C24: a chain instance is inactive until its delay, in the chain-link
\* stage for 600 ms, in the burst stage for a further 500 ms, and then
\* signals completion once for the whole instance; it does not signal
\* completion in the chain-link stage.
ChainId == <<"lightning", 0, 0>>

C24_ChainStagesInOrder ==
  /\ [](ChainId \in DOMAIN completions => completions[ChainId] <= 1)
  /\ [][/\ (ev'.fired # <<>> /\ ev'.fired[2] = ChainId) =>
             /\ ChainId \in DOMAIN children
             /\ \/ /\ ev'.fired[1] = "start" /\ ev'.fired[3] = 0
                   /\ ~children[ChainId].activeQ /\ ~children[ChainId].doneQ
                   /\ children'[ChainId].activeQ /\ ~children'[ChainId].doneQ
                   /\ ev'.completed = <<>>
                \/ /\ ev'.fired[1] = "explode" /\ ev'.fired[3] = 600
                   /\ children[ChainId].activeQ /\ ~children[ChainId].doneQ
                   /\ children'[ChainId].doneQ
                   /\ ev'.completed = <<>>
                \/ /\ ev'.fired[1] = "chainComplete" /\ ev'.fired[3] = 1100
                   /\ children[ChainId].activeQ /\ children[ChainId].doneQ
                   /\ ev'.completed = <<ChainId>>
                   /\ completions[ChainId] = 0 /\ completions'[ChainId] = 1
        /\ (\E k \in 1..Len(ev'.completed) : ev'.completed[k] = ChainId) =>
             (ev'.fired # <<>> /\ ev'.fired[1] = "chainComplete")
        /\ (phase # "idle" /\ phase' = "idle"
            /\ ChainId \in DOMAIN completions) => completions[ChainId] = 1]_vars

\* the completion signal of a chain in its burst stage
C24_Witness ==
  /\ ev.op = "chainComplete" /\ ev.completed = <<ChainId>>
  /\ ev.fired[3] = 1100
  /\ completions[ChainId] = 1
  /\ children[ChainId].doneQ

\* C25: the chain's completion signal empties the live effect set and
\* schedules one elimination event per snapshot target, the k-th (k from 0)
\* k * 50 ms later, at the positions of the chain descriptor's sequence in
\* its order.
C25_ChainEliminationsInChainOrder ==
  [][(ev'.fired # <<>> /\ ev'.fired[1] = "chainComplete") =>
       LET chain == Tail(attackEffects[1].positions)
           events == SelectSeq(timers', LAMBDA t : t.kind = "chainExplosion")
       IN  /\ pending'.attackEffects = <<>>
           /\ Len(chain) = Len(targetEnemies)
           /\ Len(events) = Len(chain)
           /\ \A k \in 1..Len(events) :
                /\ events[k].rem = (k - 1) * 50
                /\ events[k].closure = <<chain[k]>>]_vars

C27_ActiveProjectileCompletes ==
  \A id \in DOMAIN children :
    (/\ children[id].type = "gatling" /\ children[id].active
     /\ id \in DOMAIN completions /\ completions[id] = 0)
      => children[id].at < children[id].targetPosition + GATLING_HIT_DISTANCE

\* C28: the sweeper's callback runs every 100 ms; an artifact leaves the
\* collection only in that callback, which drops exactly the artifacts whose
\* age has reached the 600 ms lifetime (age >= 600) and keeps the younger
\* ones; no artifact in the collection is 700 ms old.
C28_SweeperRemovesAtLifetime ==
  /\ [](\A k \in 1..Len(pending.explosions) :
          pending.explosions[k].age < EXPLOSION_LIFETIME + CLEANUP_INTERVAL)
  /\ [][/\ Len(pending'.explosions) < Len(pending.explosions) =>
             ev'.op = "cleanup"
        /\ ev'.op = "cleanup" =>
             /\ cleanupIn = 0 /\ cleanupIn' = CLEANUP_INTERVAL
             /\ pending'.explosions =
                  SelectSeq(pending.explosions,
                            LAMBDA e : e.age < EXPLOSION_LIFETIME)
             /\ \A k \in 1..Len(ev'.swept) :
                  ev'.swept[k].age >= EXPLOSION_LIFETIME]_vars

\* the sweeper has just dropped an artifact that has reached its lifetime
\* and kept a younger one
C28_Witness ==
  /\ ev.op = "cleanup" /\ ev.swept # <<>>
  /\ \A k \in 1..Len(ev.swept) : ev.swept[k].age >= EXPLOSION_LIFETIME
  /\ pending.explosions # <<>>

\* C28 as stated: the sweeper removes an artifact only when its age has
\* exceeded 600 ms.
C28_RemovedOnlyAfterLifetimeExceeded ==
  [][ev'.op = "cleanup" =>
       \A k \in 1..Len(ev'.swept) :
         ev'.swept[k].age > EXPLOSION_LIFETIME]_vars

\* C29: whenever the phase is attack the ship's position is the attack pose
\* fixed at the accepted trigger, and no frame that runs while the phase is
\* attack, or between the approach exit and the next render, queues another
\* position.
C29_AttackHoldsAttackPose ==
  /\ [](phase = "attack" => wingmanPosition = attackPosition)
  /\ [][(Did("tick") /\ pending.phase = "attack") =>
          pending'.wingmanPosition = attackPosition]_vars

\* the scalar product and the difference of two vectors
Dot(a, b) == a[1] * b[1] + a[2] * b[2] + a[3] * b[3]
Sub(a, b) == <<a[1] - b[1], a[2] - b[2], a[3] - b[3]>>

\* C30: the spawn pose queued by an accepted trigger lies behind and above
\* the player: its displacement from playerPosition has a negative component
\* along playerForward and a positive vertical component.
C30_SpawnBehindAndAbove ==
  (ev.op = "trigger" /\ ev.returned = "true") =>
    LET displacement == Sub(pending.wingmanPosition, playerPosition)
    IN  /\ Dot(displacement, playerForward) < 0
        /\ displacement[2] > 0

\* C31: in every rendered state, and in every queued one, the active flag
\* is set exactly when the phase is approach, attack or escape, and clear
\* exactly when the phase is idle.
C31_ActiveFlagAgreesWithPhase ==
  /\ isActive <=> phase \in {"approach", "attack", "escape"}
  /\ ~isActive <=> phase = "idle"
  /\ pending.isActive <=> pending.phase \in {"approach", "attack", "escape"}

\* the render of the idle phase after the escape exit of a full activation
C31_Witness ==
  /\ ev.op = "render" /\ phase = "idle" /\ ~isActive
  /\ cycle.sinceIdle = 0 /\ cooldown = TEAM_SPECIAL_COOLDOWN

\* C32: whenever an activation is in progress (the phase is not idle) the
\* cooldown is 0, in the rendered and in the queued state; an accepted
\* trigger leaves the cooldown as it is.
C32_NoCooldownWhileActive ==
  /\ [](phase # "idle" => cooldown = 0)
  /\ [](pending.phase # "idle" => pending.cooldown = 0)
  /\ [][(Did("trigger") /\ ev'.returned = "true") =>
          pending'.cooldown = pending.cooldown]_vars

\* a trigger accepted after a full cooldown period: the activation is queued
\* and the cooldown is 0
C32_Witness ==
  /\ ev.op = "trigger" /\ ev.returned = "true"
  /\ cycle.sinceIdle = TEAM_SPECIAL_COOLDOWN
  /\ pending.phase = "approach" /\ pending.isActive /\ pending.cooldown = 0

\* C33: whenever the phase is idle or approach the live effect set is
\* empty, in the rendered and in the queued state; and the queued set only
\* grows in the frame that runs executeAttack: no completion handler and no
\* timer adds an instance to it.
C33_EffectsLiveOnlyInAttackOrEscape ==
  /\ [](phase \in {"idle", "approach"} => attackEffects = <<>>)
  /\ [](pending.phase \in {"idle", "approach"} => pending.attackEffects = <<>>)
  /\ [][(Len(pending'.attackEffects) > Len(pending.attackEffects)
         \/ ~(Ids(pending'.attackEffects) \subseteq Ids(pending.attackEffects)))
        => ev'.executeAttack = 1]_vars

\* the escape exit of an activation whose effects have not all completed:
\* the queued idle state has an empty live set
C33_Witness ==
  /\ ev.op = "tick" /\ ev.escapeExit
  /\ attackEffects # <<>>
  /\ pending.phase = "idle" /\ pending.attackEffects = <<>>

\* C34: once the state machine is back in idle (rendered and queued) no
\* timer adds an explosion: the clear of the live effects at the escape exit
\* keeps every pending effect timer from raising an elimination event.
C34_NoExplosionAfterIdle ==
  [][(phase = "idle" /\ pending.phase = "idle" /\ ev'.fired # <<>>) =>
       Len(pending'.explosions) <= Len(pending.explosions)]_vars

\* isReady of WingmanSelectorHUD, on the state WingmanSupportSystem mirrors
HostReady == host.cooldown = 0 /\ ~host.isActive

\* C35: the host shows READY only in states where a trigger with a non-empty
\* target list would be accepted: the inner phase is idle and the inner
\* cooldown is 0.
C35_ReadyOnlyWhenAcceptable ==
  HostReady => (phase = "idle" /\ ~isActive /\ cooldown = 0)

\* C36: a frame that brings the queued cooldown from a positive value to 0
\* notifies the value 0 on that frame, and every frame that notifies sends
\* the value it queues; so whenever the queued cooldown is 0 the cooldown
\* the host mirrors is 0 as well.
C36_CooldownZeroIsNotified ==
  /\ [](pending.cooldown = 0 => host.cooldown = 0)
  /\ [][(Did("tick") /\ pending.cooldown > 0 /\ pending'.cooldown = 0) =>
          /\ ev'.onCooldownUpdate = <<<<0, TEAM_SPECIAL_COOLDOWN>>>>
          /\ host'.cooldown = 0]_vars
  /\ [][(Did("tick") /\ ev'.onCooldownUpdate # <<>>) =>
          ev'.onCooldownUpdate = <<<<pending'.cooldown,
                                     TEAM_SPECIAL_COOLDOWN>>>>]_vars

\* the frame that ends a cooldown period: it queues and notifies 0
C36_Witness ==
  /\ ev.op = "tick" /\ ev.onCooldownUpdate = <<<<0, TEAM_SPECIAL_COOLDOWN>>>>
  /\ cooldown > 0 /\ pending.cooldown = 0 /\ host.cooldown = 0
  /\ cycle.sinceIdle = TEAM_SPECIAL_COOLDOWN


=============================================================================
